---------------------------- MODULE Spec2Model ----------------------------
(***************************************************************************)
(* A model of the WhatsApp -> webhook relay bot.  The repository holds     *)
(* five restatements of the same program:                                  *)
(*    "index_a"   src/index.js lines 1-169                                 *)
(*    "index_b"   src/index.js lines 171-353                               *)
(*    "part_000"  src/unnamed/part_000  (dedup cache, POST /send)          *)
(*    "part_001"  src/unnamed/part_001                                     *)
(*    "part_002"  src/unnamed/part_002                                     *)
(* The variable `variant` says which of them is running.  Strings that the *)
(* code takes apart (JIDs) are sequences of one-character strings.         *)
(***************************************************************************)
EXTENDS Integers, Sequences, FiniteSets, TLC

VARIABLES
    variant,            \* which restatement of the program runs
    webhookUrl,         \* N8N_WEBHOOK_URL is non-empty
    processedMessages,  \* the Set of part_000, in insertion order
    pending,            \* suspended messages.upsert handlers (at an await)
    relayLog,           \* webhook POSTs issued so far, oldest first
    timers,             \* setTimeout callbacks not yet run
    sent,               \* sock.sendMessage calls issued so far, oldest first
    now,                \* the clock, in milliseconds
    nEvents,            \* number of messages.upsert events emitted
    lastDelivered,      \* history: ids of the last two messages iterated over
    insertedAt,         \* history: when each id last entered processedMessages
    clock,              \* history: number of insertions so far
    nodeExits,          \* this Node.js ends the process on an unhandled rejection
    process,            \* "running" or "exited"
    boots,              \* calls of startBot that have not returned yet
    socks,              \* the sockets made by makeWASocket, oldest first
    globalSock,         \* global.sock: an index of socks, 0 while undefined
    httpLog,            \* answers given to POST /send, oldest first
    attempts,           \* history: the calls of startBot, oldest first
    closes,             \* history: the "close" events, oldest first
    inbound,            \* history: the messages.upsert events of the sockets
    answered,           \* history: the latest answer of the webhook
    authFolder,         \* the local directory ./<CLIENT_ID>_auth
    bucket,             \* the objects under <CLIENT_ID>_auth/ in the bucket
    syncs,              \* creds.update handlers and uploads not yet returned
    rotations,          \* number of creds.update events emitted
    uploadLog,          \* history: the upload calls, oldest first
    syncLog,            \* history: how each sync ended, oldest first
    fetchLog            \* history: the returns of downloadAuthFolder

connVars == <<nodeExits, process, boots, socks, globalSock, httpLog, attempts,
              closes>>

credVars == <<authFolder, bucket, syncs, rotations, uploadLog, syncLog,
              fetchLog>>

vars == <<variant, webhookUrl, processedMessages, pending, relayLog, timers,
          sent, now, nEvents, lastDelivered, insertedAt, clock, connVars,
          inbound, answered, credVars>>

Variants == {"index_a", "index_b", "part_000", "part_001", "part_002"}

-----------------------------------------------------------------------------
(* JavaScript string operations on sequences of characters                 *)

NULL == "<null>"

AT == <<"@">>
C_US == <<"@", "c", ".", "u", "s">>
G_US == <<"@", "g", ".", "u", "s">>
S_WHATSAPP_NET ==
    <<"@", "s", ".", "w", "h", "a", "t", "s", "a", "p", "p", ".", "n", "e", "t">>
LID == <<"@", "l", "i", "d">>
\* the regular expression /@s.whatsapp.net/ : "." matches any character
ANY == "<any>"
RE_S_WHATSAPP_NET ==
    <<"@", "s", ANY, "w", "h", "a", "t", "s", "a", "p", "p", ANY, "n", "e", "t">>

\* pattern p (ANY is a wildcard) occurs in s at position i
MatchAt(s, p, i) ==
    /\ i >= 1
    /\ i + Len(p) - 1 <= Len(s)
    /\ \A k \in 1..Len(p) : p[k] = ANY \/ s[i + k - 1] = p[k]

\* String.prototype.indexOf, 1-based, 0 when absent
IndexOf(s, p) ==
    IF \E i \in 1..Len(s) : MatchAt(s, p, i)
    THEN CHOOSE i \in 1..Len(s) :
            MatchAt(s, p, i) /\ \A j \in 1..(i - 1) : ~MatchAt(s, p, j)
    ELSE 0

Includes(s, p) == IndexOf(s, p) # 0

EndsWith(s, p) == Len(s) >= Len(p) /\ MatchAt(s, p, Len(s) - Len(p) + 1)

\* s.split("@")[0]
SplitAt0(s) ==
    IF IndexOf(s, AT) = 0 THEN s ELSE SubSeq(s, 1, IndexOf(s, AT) - 1)

\* s.replace(p, r) with a string or non-global pattern: the first match only
ReplaceFirst(s, p, r) ==
    IF IndexOf(s, p) = 0 THEN s
    ELSE SubSeq(s, 1, IndexOf(s, p) - 1) \o r
         \o SubSeq(s, IndexOf(s, p) + Len(p), Len(s))

\* s.replace(/@lid.*/, "@c.us"): ".*" takes the rest of the string
ReplaceLidTail(s) ==
    IF IndexOf(s, LID) = 0 THEN s
    ELSE SubSeq(s, 1, IndexOf(s, LID) - 1) \o C_US

\* s.replace(/@s.whatsapp.net|@lid.*/g, "@c.us"), scanning from position i
RECURSIVE ReplaceAllFrom(_, _)
ReplaceAllFrom(s, i) ==
    IF i > Len(s) THEN <<>>
    ELSE IF MatchAt(s, RE_S_WHATSAPP_NET, i)
         THEN C_US \o ReplaceAllFrom(s, i + Len(RE_S_WHATSAPP_NET))
    ELSE IF MatchAt(s, LID, i) THEN C_US
    ELSE <<s[i]>> \o ReplaceAllFrom(s, i + 1)

-----------------------------------------------------------------------------
(* The per-message part of the messages.upsert handlers                    *)

\* msg.message.conversation ?? msg.message.extendedTextMessage?.text ?? ""
TextOf(msg) ==
    IF msg.conversation # NULL THEN msg.conversation
    ELSE IF msg.extText # NULL THEN msg.extText
    ELSE ""

\* a JavaScript value used as a condition; <<>> stands for undefined and ""
Truthy(s) == s # <<>>

\* index.js (first program): only a senderPn rewrites a non-group jid
NormalizeIndexA(msg) ==
    IF Truthy(msg.senderPn) /\ ~EndsWith(msg.remoteJid, G_US)
    THEN SplitAt0(msg.senderPn) \o C_US
    ELSE msg.remoteJid

\* index.js (second program): two replace calls, senderPn is not read
NormalizeIndexB(msg) ==
    IF ~EndsWith(msg.remoteJid, G_US)
    THEN ReplaceLidTail(ReplaceFirst(msg.remoteJid, S_WHATSAPP_NET, C_US))
    ELSE msg.remoteJid

\* part_001: pn = senderPn?.split("@")[0], else one global replace
NormalizePart001(msg) ==
    IF ~EndsWith(msg.remoteJid, G_US)
    THEN IF Truthy(msg.senderPn) /\ Truthy(SplitAt0(msg.senderPn))
         THEN SplitAt0(msg.senderPn) \o C_US
         ELSE ReplaceAllFrom(msg.remoteJid, 1)
    ELSE msg.remoteJid

\* part_000 and part_002 (the same text): senderPn, "@s.whatsapp.net", "@lid"
NormalizePart000(msg) ==
    IF ~EndsWith(msg.remoteJid, G_US)
    THEN IF Truthy(msg.senderPn) THEN SplitAt0(msg.senderPn) \o C_US
         ELSE IF Includes(msg.remoteJid, S_WHATSAPP_NET)
              THEN SplitAt0(msg.remoteJid) \o C_US
         ELSE IF Includes(msg.remoteJid, LID)
              THEN SplitAt0(msg.remoteJid) \o C_US
         ELSE msg.remoteJid
    ELSE msg.remoteJid

NormalizeJid(v, msg) ==
    CASE v = "index_a"  -> NormalizeIndexA(msg)
      [] v = "index_b"  -> NormalizeIndexB(msg)
      [] v = "part_001" -> NormalizePart001(msg)
      [] OTHER          -> NormalizePart000(msg)

-----------------------------------------------------------------------------
(* The JavaScript Set processedMessages: a sequence without repetitions,   *)
(* in insertion order                                                      *)

CACHE_LIMIT == 500

Range(s) == {s[k] : k \in 1..Len(s)}

SetHas(s, x) == x \in Range(s)

\* Set.prototype.add: adding a member again keeps its place
SetAdd(s, x) == IF SetHas(s, x) THEN s ELSE Append(s, x)

SetDelete(s, x) == SelectSeq(s, LAMBDA y : y # x)

\* the newest member instead of the oldest
SetLast(s) == s[Len(s)]

\* processedMessages.values().next().value
SetFirst(s) == s[1]

\* a cache that is never trimmed
MarkProcessedNoEvict(win, msgId) == SetAdd(win, msgId)

\* part_000 lines 139-143: mark as processed, then evict one if over the limit
MarkProcessed(win, msgId) ==
    LET added == SetAdd(win, msgId)
    IN  IF Len(added) > CACHE_LIMIT
        THEN SetDelete(added, SetFirst(added))
        ELSE added

\* a handler that forgets the duplicate check
IsDuplicateNever(win, msgId) == FALSE

\* part_000 line 134
IsDuplicate(win, msgId) == SetHas(win, msgId)

-----------------------------------------------------------------------------
(* One iteration of `for (const msg of messages)`.  The result says how    *)
(* the iteration ends: "continue", "return" (the handler ends) or "fetch"  *)
(* (the webhook POST is issued and the handler waits for it).              *)

Step(win, how, msg, jid, text) ==
    [win |-> win, how |-> how, msg |-> msg, jid |-> jid, text |-> text]

Skip(win, msg) == Step(win, "continue", msg, <<>>, "")

\* then `if (N8N_WEBHOOK_URL) { ... await fetch(...) ... }`
Relay(url, win, msg, jid) ==
    IF url THEN Step(win, "fetch", msg, jid, TextOf(msg)) ELSE Skip(win, msg)

\* index.js lines 121-158
IterIndexA(url, win, msg) ==
    IF ~msg.hasMessage \/ msg.fromMe THEN Skip(win, msg)
    ELSE IF TextOf(msg) = "" THEN Skip(win, msg)
    ELSE Relay(url, win, msg, NormalizeIndexA(msg))

\* index.js lines 306-344: `return`, and no `if (!text) continue`
IterIndexB(url, win, msg) ==
    IF ~msg.hasMessage \/ msg.fromMe THEN Step(win, "return", msg, <<>>, "")
    ELSE Relay(url, win, msg, NormalizeIndexB(msg))

\* a handler that marks a message only after its webhook call, not before
IterPart000MarkLate(url, win, msg) ==
    IF IsDuplicate(win, msg.id) THEN Skip(win, msg)
    ELSE IF ~msg.hasMessage \/ msg.fromMe THEN Skip(win, msg)
    ELSE IF TextOf(msg) = "" THEN Skip(MarkProcessed(win, msg.id), msg)
    ELSE Relay(url, win, msg, NormalizePart000(msg))

\* part_000 lines 131-192
IterPart000(url, win, msg) ==
    IF IsDuplicate(win, msg.id) THEN Skip(win, msg)
    ELSE IF ~msg.hasMessage \/ msg.fromMe THEN Skip(win, msg)
    ELSE IF TextOf(msg) = "" THEN Skip(MarkProcessed(win, msg.id), msg)
    ELSE Relay(url, MarkProcessed(win, msg.id), msg, NormalizePart000(msg))

\* part_001 lines 107-145
IterPart001(url, win, msg) ==
    IF ~msg.hasMessage \/ msg.fromMe THEN Skip(win, msg)
    ELSE IF TextOf(msg) = "" THEN Skip(win, msg)
    ELSE Relay(url, win, msg, NormalizePart001(msg))

\* part_002 lines 100-152
IterPart002(url, win, msg) ==
    IF ~msg.hasMessage \/ msg.fromMe THEN Skip(win, msg)
    ELSE IF TextOf(msg) = "" THEN Skip(win, msg)
    ELSE Relay(url, win, msg, NormalizePart000(msg))

Iter(v, url, win, msg) ==
    CASE v = "index_a"  -> IterIndexA(url, win, msg)
      [] v = "index_b"  -> IterIndexB(url, win, msg)
      [] v = "part_000" -> IterPart000(url, win, msg)
      [] v = "part_001" -> IterPart001(url, win, msg)
      [] OTHER          -> IterPart002(url, win, msg)

\* The loop from message i on, up to the next await or the end of the batch.
\* `seen` collects the ids iterated over.
RECURSIVE RunFrom(_, _, _, _, _, _)
RunFrom(v, url, win, msgs, i, seen) ==
    IF i > Len(msgs)
    THEN [win |-> win, status |-> "done", i |-> i, jid |-> <<>>, text |-> "",
          seen |-> seen]
    ELSE LET r == Iter(v, url, win, msgs[i])
             s == Append(seen, msgs[i].id)
         IN  CASE r.how = "continue" -> RunFrom(v, url, r.win, msgs, i + 1, s)
               [] r.how = "return" ->
                    [win |-> r.win, status |-> "done", i |-> i, jid |-> <<>>,
                     text |-> "", seen |-> s]
               [] OTHER ->
                    [win |-> r.win, status |-> "fetch", i |-> i,
                     jid |-> r.jid, text |-> r.text, seen |-> s]

-----------------------------------------------------------------------------
(* The reply of the webhook and the delay of the answer                    *)

Responses == {"throw", "nojson", "noreply", "reply", "Reply", "array"}

\* index.js 145-150, part_000 177-180, part_001 134-138, part_002 135-140:
\* `try { data = await res.json() } catch {}`, first element of an array,
\* then data?.Reply ?? data?.reply
ReplyOfAnyAnswer(resp) == "ok"

\* (see above)
ReplyOfArrayAware(resp) ==
    IF resp \in {"reply", "Reply", "array"} THEN "ok" ELSE ""

\* index.js 329-332: an array is not unwrapped
ReplyOfIndexB(resp) == IF resp \in {"reply", "Reply"} THEN "ok" ELSE ""

ReplyOf(v, resp) ==
    IF v = "index_b" THEN ReplyOfIndexB(resp) ELSE ReplyOfArrayAware(resp)

\* Math.floor(Math.random() * (20000 - 10000 + 1)) + 10000
DelaysPart000 == {10000, 15000, 20000}
\* Math.floor(Math.random() * 11000) + 9000
DelaysPart001 == {9000, 15000, 19999}
\* 10000 + Math.random() * 10000, cut to whole milliseconds by setTimeout
DelaysIndexB == {10000, 15000, 19999}

ReplyDelays(v) ==
    CASE v = "part_001" -> DelaysPart001
      [] v = "index_b"  -> DelaysIndexB
      [] OTHER          -> DelaysPart000

-----------------------------------------------------------------------------
(* Inbound events                                                          *)

\* the fields of an event that the handlers read
Msg(id, fromMe, hasMessage, conv, ext, remoteJid, senderPn, participant) ==
    [id |-> id, fromMe |-> fromMe, hasMessage |-> hasMessage,
     conversation |-> conv, extText |-> ext,
     remoteJid |-> remoteJid, senderPn |-> senderPn,
     participant |-> participant]

JID_USER == <<"5", "5">> \o S_WHATSAPP_NET
JID_DEVICE == <<"5", "5", ":", "3">> \o S_WHATSAPP_NET
JID_CUS == <<"5", "5">> \o C_US
JID_LID == <<"7", "7">> \o LID
JID_GROUP == <<"1", "2">> \o G_US
JID_STATUS ==
    <<"s", "t", "a", "t", "u", "s", "@", "b", "r", "o", "a", "d", "c", "a", "s", "t">>
PN_USER == <<"9", "9">> \o S_WHATSAPP_NET
PARTICIPANT == <<"8", "8">> \o S_WHATSAPP_NET

\* a text message of a personal chat
TextMsg(id) == Msg(id, FALSE, TRUE, "hi", NULL, JID_USER, <<>>, <<>>)

-----------------------------------------------------------------------------
(* State                                                                   *)

\* the files that useMultiFileAuthState keeps in the auth folder
CREDS_JSON == "creds.json"
PRE_KEY == "pre-key-1.json"
BlobNames == {CREDS_JSON, PRE_KEY}

\* a directory: whether it exists, and the content (a version number) of
\* each file in it
Folder(files) == [exists |-> TRUE, files |-> files]
NoFolder == [exists |-> FALSE, files |-> <<>>]

\* the auth folder at process start: absent, or left by an earlier run
AuthFolders == {NoFolder, Folder([n \in BlobNames |-> 1])}

\* the bucket at process start: nothing under the prefix, or an earlier upload
NoBlobs == <<>>
Buckets == {NoBlobs, [n \in BlobNames |-> 1]}

\* the order in which a listing gives the names
BlobOrder == <<CREDS_JSON, PRE_KEY>>

\* fs.readdir(authFolder), storage.list(prefix): the names of the files
Listing(files) == SelectSeq(BlobOrder, LAMBDA n : n \in DOMAIN files)

\* fs.writeFile(path.join(authFolder, name), content)
WriteFile(folder, name, content) ==
    [folder EXCEPT !.files =
        [n \in DOMAIN folder.files \cup {name} |->
            IF n = name THEN content ELSE folder.files[n]]]

\* a call of startBot at its first await; `list`, `i`, `buf` are the locals
\* of downloadAuthFolder (data, the loop position, buf)
Boot(id) == [id |-> id, pc |-> "version", list |-> <<>>, i |-> 0, buf |-> 0]

\* no credentials anywhere: a first start
FreshStart == authFolder = NoFolder /\ bucket = NoBlobs

Init ==
    /\ variant \in Variants
    /\ webhookUrl \in BOOLEAN
    /\ processedMessages = <<>>
    /\ pending = {}
    /\ relayLog = <<>>
    /\ timers = {}
    /\ sent = <<>>
    /\ now = 0
    /\ nEvents = 0
    /\ lastDelivered = <<>>
    /\ insertedAt = <<>>
    /\ clock = 0
    /\ nodeExits \in BOOLEAN
    /\ process = "running"
    /\ boots = {Boot(1)}
    /\ socks = <<>>
    /\ globalSock = 0
    /\ httpLog = <<>>
    /\ attempts = <<[id |-> 1, cause |-> "initial", at |-> 0, closeAt |-> 0]>>
    /\ closes = <<>>
    /\ inbound = <<>>
    /\ answered = <<>>
    /\ authFolder \in AuthFolders
    /\ bucket \in Buckets
    /\ syncs = {}
    /\ rotations = 0
    /\ uploadLog = <<>>
    /\ syncLog = <<>>
    /\ fetchLog = <<>>

\* ids of a batch, in order
IdsOf(msgs) == [j \in 1..Len(msgs) |-> msgs[j].id]

LastTwo(s) == IF Len(s) <= 2 THEN s ELSE SubSeq(s, Len(s) - 1, Len(s))

\* positions of win2 holding an id that win does not hold
NewAt(win, win2) ==
    LET old == Range(win) IN {k \in 1..Len(win2) : win2[k] \notin old}

\* history of insertions, read off the change of processedMessages
Stamp(win, win2) ==
    [x \in {win2[k] : k \in NewAt(win, win2)} |->
        clock + Cardinality({k \in NewAt(win, win2) :
                                k <= CHOOSE n \in NewAt(win, win2) : win2[n] = x})]

\* a promise rejects and nobody handles it
Rejected == process' = IF nodeExits THEN "exited" ELSE "running"

\* the sockets whose connection is open
OpenSocks == {k \in 1..Len(socks) : socks[k].state = "open"}

\* the state of socket k ("none" where the handler runs without a socket)
SockState(k) == IF k \in 1..Len(socks) THEN socks[k].state ELSE "none"

\* sock.sendMessage of the connection library, by the contract of send: it
\* fails on a connection that is not open, and may fail on an open one
SockSendMessage(state) ==
    IF state # "open" THEN {"rejected"} ELSE {"resolved", "rejected"}

\* one timer for each sender: a new reply replaces the pending one
SetTimeoutCoalescing(ts, t) ==
    {u \in ts : ~(u.kind = "reply" /\ t.kind = "reply" /\ u.to = t.to)} \cup {t}

\* setTimeout(callback, delay): one more timer, the others are left alone
SetTimeout(ts, t) == ts \cup {t}

\* Run handler invocation `hid` from message i on and record where it stops.
Resume(hid, sock, msgs, i, rest) ==
    LET r == RunFrom(variant, webhookUrl, processedMessages, msgs, i, <<>>)
    IN  /\ processedMessages' = r.win
        /\ insertedAt' = Stamp(processedMessages, r.win) @@ insertedAt
        /\ clock' = clock + Cardinality(NewAt(processedMessages, r.win))
        /\ lastDelivered' = LastTwo(lastDelivered \o r.seen)
        /\ IF r.status = "fetch"
           THEN /\ pending' = rest \cup
                      {[hid |-> hid, sock |-> sock, msgs |-> msgs, i |-> r.i,
                        jid |-> r.jid, text |-> r.text, phase |-> "fetch",
                        reply |-> ""]}
                /\ relayLog' = Append(relayLog,
                      [from |-> r.jid, message |-> r.text, msg |-> msgs[r.i],
                       hid |-> hid, i |-> r.i, at |-> now, clk |-> clock'])
           ELSE /\ pending' = rest
                /\ UNCHANGED relayLog

\* the webhook POST that the suspended handler h is waiting for
RelayOf(h) ==
    CHOOSE k \in 1..Len(relayLog) :
        relayLog[k].hid = h.hid /\ relayLog[k].i = h.i

\* a handler that starts the work on all messages of a batch at once
\* (messages.forEach(async (msg) => ...)) instead of one after the other
UpsertConcurrent(sock, msgs, type) ==
    LET r1 == Iter(variant, webhookUrl, processedMessages, msgs[1])
        r2 == Iter(variant, webhookUrl, r1.win, msgs[2])
        P(i, r) == [hid |-> nEvents + 1, sock |-> sock, msgs |-> msgs, i |-> i,
                    jid |-> r.jid, text |-> r.text, phase |-> "fetch",
                    reply |-> ""]
        L(i, r) == [from |-> r.jid, message |-> r.text, msg |-> msgs[i],
                    hid |-> nEvents + 1, i |-> i, at |-> now, clk |-> clock]
    IN  /\ nEvents' = nEvents + 1
        /\ IF type # "notify"
           THEN UNCHANGED <<processedMessages, pending, relayLog, lastDelivered,
                            insertedAt, clock>>
           ELSE IF Len(msgs) = 2 /\ r1.how = "fetch" /\ r2.how = "fetch"
           THEN /\ pending' = pending \cup {P(1, r1), P(2, r2)}
                /\ relayLog' = relayLog \o <<L(1, r1), L(2, r2)>>
                /\ processedMessages' = r2.win
                /\ lastDelivered' = LastTwo(lastDelivered \o IdsOf(msgs))
                /\ UNCHANGED <<insertedAt, clock>>
           ELSE Resume(nEvents + 1, sock, msgs, 1, pending)
        /\ UNCHANGED <<variant, webhookUrl, timers, sent, now, connVars, answered,
                       credVars>>

\* sock.ev.on("messages.upsert", async ({ messages, type }) => { ... })
Upsert(sock, msgs, type) ==
    /\ nEvents' = nEvents + 1
    /\ IF type # "notify"
       THEN UNCHANGED <<processedMessages, pending, relayLog, lastDelivered,
                        insertedAt, clock>>
       ELSE Resume(nEvents + 1, sock, msgs, 1, pending)
    /\ UNCHANGED <<variant, webhookUrl, timers, sent, now, connVars, answered,
                   credVars>>

\* `await fetch(...)` settles: the reply is read and the loop goes on
FetchDone(h, resp, delay) ==
    /\ h \in pending
    /\ h.phase = "fetch"
    /\ IF resp # "throw" /\ ReplyOf(variant, resp) # ""
       THEN IF variant = "index_a"
            THEN \* await sock.sendMessage(jid, { text: reply })
                 /\ sent' = Append(sent, [to |-> h.jid, text |-> ReplyOf(variant, resp),
                                          sock |-> h.sock, hid |-> h.hid,
                                          i |-> h.i, at |-> now,
                                          state |-> SockState(h.sock),
                                          due |-> now, setAt |-> now,
                                          open |-> OpenSocks])
                 /\ pending' = (pending \ {h}) \cup
                        {[h EXCEPT !.phase = "send", !.reply = ReplyOf(variant, resp)]}
                 /\ UNCHANGED <<processedMessages, relayLog, timers,
                                lastDelivered, insertedAt, clock>>
            ELSE \* setTimeout(() => sock.sendMessage(jid, { text: reply }), delay)
                 /\ timers' = SetTimeout(timers,
                         [kind |-> "reply", fireAt |-> now + delay, to |-> h.jid,
                          text |-> ReplyOf(variant, resp), sock |-> h.sock,
                          hid |-> h.hid, i |-> h.i, setAt |-> now])
                 /\ Resume(h.hid, h.sock, h.msgs, h.i + 1, pending \ {h})
                 /\ UNCHANGED sent
       ELSE /\ Resume(h.hid, h.sock, h.msgs, h.i + 1, pending \ {h})
            /\ UNCHANGED <<timers, sent>>
    /\ UNCHANGED <<variant, webhookUrl, now, nEvents, connVars, inbound,
                   credVars>>

\* index.js 152: `await sock.sendMessage(...)` settles (a throw is caught at 155)
SendDone(h) ==
    /\ h \in pending
    /\ h.phase = "send"
    /\ Resume(h.hid, h.sock, h.msgs, h.i + 1, pending \ {h})
    /\ UNCHANGED <<variant, webhookUrl, timers, sent, now, nEvents, connVars,
                   inbound, answered, credVars>>

\* a reply timer runs: sock.sendMessage(jid, { text: reply }) on the socket
\* the handler closed over.  Nothing handles a rejection of that promise
\* (part_000 184-187, part_001 141, part_002 144-147, index.js 336-339).
ReplyFire(t, outcome) ==
    /\ process = "running"
    /\ t \in timers
    /\ t.kind = "reply"
    /\ t.fireAt <= now
    /\ outcome \in SockSendMessage(SockState(t.sock))
    /\ timers' = timers \ {t}
    /\ sent' = Append(sent, [to |-> t.to, text |-> t.text, sock |-> t.sock,
                             hid |-> t.hid, i |-> t.i, at |-> now,
                             state |-> SockState(t.sock), due |-> t.fireAt,
                             setAt |-> t.setAt, open |-> OpenSocks])
    /\ IF outcome = "rejected" THEN Rejected ELSE UNCHANGED process
    /\ UNCHANGED <<variant, webhookUrl, processedMessages, pending, relayLog,
                   now, nEvents, lastDelivered, insertedAt, clock, nodeExits,
                   boots, socks, globalSock, httpLog, attempts, closes,
                   inbound, answered, credVars>>

\* time passes, up to the next timer that is due
AdvanceTime ==
    /\ process = "running"
    /\ timers # {}
    /\ \A t \in timers : t.fireAt > now
    /\ now' = CHOOSE d \in {t.fireAt : t \in timers} :
                \A t \in timers : d <= t.fireAt
    /\ UNCHANGED <<variant, webhookUrl, processedMessages, pending, relayLog,
                   timers, sent, nEvents, lastDelivered, insertedAt, clock,
                   connVars, inbound, answered, credVars>>

-----------------------------------------------------------------------------
(* startBot, the connection.update handler and POST /send                  *)

msgVars == <<processedMessages, pending, relayLog, nEvents, lastDelivered,
             insertedAt, clock, inbound, answered>>

MaxStarts == 3
MaxSends == 2

\* setTimeout(startBot, 5000): index.js 109, part_000 118, part_002 88
RECONNECT_DELAY == 5000
\* setTimeout(startBot, 4000): part_001 98
RECONNECT_DELAY_001 == 4000

ReconnectDelay(v) ==
    CASE v = "part_001" -> RECONNECT_DELAY_001
      [] v = "index_b"  -> 0
      [] OTHER          -> RECONNECT_DELAY

\* index.js 295 calls startBot() in the handler itself; the others set a timer
ReconnectsWithTimer(v) == v # "index_b"

\* part_000 line 126 reads `msg` outside the handler that declares it: a
\* ReferenceError, thrown after the first two handlers are registered
ThrowsBeforeUpsert(v) == v = "part_000"

\* part_000 94: global.sock = sock
SetsGlobalSock(v) == v = "part_000"

\* a call of startBot begins: it runs up to `await fetchLatestBaileysVersion()`
StartBot(cause, closeAt) ==
    /\ boots' = boots \cup {Boot(Len(attempts) + 1)}
    /\ attempts' = Append(attempts, [id |-> Len(attempts) + 1, cause |-> cause,
                                     at |-> now, closeAt |-> closeAt])

\* `await fetchLatestBaileysVersion()` settles (on a network error the
\* library answers with its built-in version)
BootVersion(b) ==
    /\ process = "running"
    /\ b \in boots
    /\ b.pc = "version"
    /\ boots' = (boots \ {b}) \cup {[b EXCEPT !.pc = "download"]}
    /\ UNCHANGED <<variant, webhookUrl, msgVars, timers, sent, now, nodeExits,
                   process, socks, globalSock, httpLog, attempts, closes,
                   credVars>>

\* downloadAuthFolder returns (it returns no value on any path): startBot
\* goes on to `await useMultiFileAuthState(authFolder)`
DownloadReturns(b, log, before) ==
    /\ boots' = (boots \ {b}) \cup
          {[b EXCEPT !.pc = "auth", !.list = <<>>, !.i = 0, !.buf = 0]}
    /\ fetchLog' = Append(fetchLog,
          [boot |-> b.id, ret |-> "undefined", log |-> log,
           listed |-> Len(b.list), before |-> before, after |-> authFolder'])

\* a program that makes the folder before it looks at the listing
BootDownloadMkdirFirst(b, result) ==
    /\ process = "running"
    /\ b \in boots
    /\ b.pc = "download"
    /\ authFolder' = [authFolder EXCEPT !.exists = TRUE]
    /\ DownloadReturns(b, IF result = "throw" THEN "failed" ELSE "fresh",
                       authFolder)
    /\ UNCHANGED <<variant, webhookUrl, msgVars, timers, sent, now, nodeExits,
                   process, socks, globalSock, httpLog, attempts, closes,
                   bucket, syncs, rotations, uploadLog, syncLog>>

\* downloadAuthFolder: `await supabase.storage.from(BUCKET_NAME).list(...)`
\* settles with the listing ("data"), with { error } or by throwing.
\* No files, or an error: log and return; else `await fs.mkdir(...)`.
BootDownload(b, result) ==
    /\ process = "running"
    /\ b \in boots
    /\ b.pc = "download"
    /\ IF result = "data" /\ Listing(bucket) # <<>>
       THEN /\ boots' = (boots \ {b}) \cup
                  {[b EXCEPT !.pc = "mkdir", !.list = Listing(bucket)]}
            /\ UNCHANGED <<authFolder, fetchLog>>
       ELSE /\ authFolder' = authFolder
            /\ DownloadReturns(b, IF result = "throw" THEN "failed" ELSE "fresh",
                               authFolder)
    /\ UNCHANGED <<variant, webhookUrl, msgVars, timers, sent, now, nodeExits,
                   process, socks, globalSock, httpLog, attempts, closes,
                   bucket, syncs, rotations, uploadLog, syncLog>>

\* the download loop is at file i: `await ...download(name)` is issued, or
\* the loop is over and the function logs and returns
DownloadNext(b, i, before) ==
    IF i <= Len(b.list)
    THEN /\ boots' = (boots \ {b}) \cup {[b EXCEPT !.pc = "blob", !.i = i]}
         /\ UNCHANGED fetchLog
    ELSE DownloadReturns(b, "loaded", before)

\* `await fs.mkdir(authFolder, { recursive: true })` settles
BootMkdir(b, ok) ==
    /\ process = "running"
    /\ b \in boots
    /\ b.pc = "mkdir"
    /\ IF ok
       THEN /\ authFolder' = [authFolder EXCEPT !.exists = TRUE]
            /\ DownloadNext(b, 1, authFolder)
       ELSE /\ authFolder' = authFolder
            /\ DownloadReturns(b, "failed", authFolder)
    /\ UNCHANGED <<variant, webhookUrl, msgVars, timers, sent, now, nodeExits,
                   process, socks, globalSock, httpLog, attempts, closes,
                   bucket, syncs, rotations, uploadLog, syncLog>>

\* `await ...download(name)` settles: with the content as the bucket holds
\* it now ("data"), with { error } (the file is skipped), or by throwing;
\* with the content, `await fs.writeFile(...)` is issued
BootFetchBlob(b, result) ==
    /\ process = "running"
    /\ b \in boots
    /\ b.pc = "blob"
    /\ authFolder' = authFolder
    /\ IF result = "data" /\ b.list[b.i] \in DOMAIN bucket
       THEN /\ boots' = (boots \ {b}) \cup
                  {[b EXCEPT !.pc = "write", !.buf = bucket[b.list[b.i]]]}
            /\ UNCHANGED fetchLog
       ELSE IF result = "throw"
       THEN DownloadReturns(b, "failed", authFolder)
       ELSE DownloadNext(b, b.i + 1, authFolder)
    /\ UNCHANGED <<variant, webhookUrl, msgVars, timers, sent, now, nodeExits,
                   process, socks, globalSock, httpLog, attempts, closes,
                   bucket, syncs, rotations, uploadLog, syncLog>>

\* `await fs.writeFile(path.join(authFolder, name), buf)` settles
BootWriteBlob(b, ok) ==
    /\ process = "running"
    /\ b \in boots
    /\ b.pc = "write"
    /\ IF ok
       THEN /\ authFolder' = WriteFile(authFolder, b.list[b.i], b.buf)
            /\ DownloadNext(b, b.i + 1, authFolder)
       ELSE /\ authFolder' = authFolder
            /\ DownloadReturns(b, "failed", authFolder)
    /\ UNCHANGED <<variant, webhookUrl, msgVars, timers, sent, now, nodeExits,
                   process, socks, globalSock, httpLog, attempts, closes,
                   bucket, syncs, rotations, uploadLog, syncLog>>

\* `await useMultiFileAuthState(authFolder)` settles (ok), or it or
\* makeWASocket throws (~ok); after it, without another await, makeWASocket
\* and the registration of the handlers.  useMultiFileAuthState makes the
\* folder if it is missing and reads creds.json if it is there; `creds` is
\* the content of state.creds (1 also for new credentials).
BootSocket(b, ok) ==
    /\ process = "running"
    /\ b \in boots
    /\ b.pc = "auth"
    /\ boots' = boots \ {b}
    /\ IF ok
       THEN /\ socks' = Append(socks,
                  [state |-> "connecting", boot |-> b.id,
                   upsert |-> ~ThrowsBeforeUpsert(variant),
                   creds |-> IF CREDS_JSON \in DOMAIN authFolder.files
                             THEN authFolder.files[CREDS_JSON] ELSE 1])
            /\ globalSock' = IF SetsGlobalSock(variant) THEN Len(socks) + 1
                             ELSE globalSock
            /\ authFolder' = [authFolder EXCEPT !.exists = TRUE]
            /\ IF ThrowsBeforeUpsert(variant) THEN Rejected
               ELSE UNCHANGED process
       ELSE Rejected /\ UNCHANGED <<socks, globalSock, authFolder>>
    /\ UNCHANGED <<variant, webhookUrl, msgVars, timers, sent, now, nodeExits,
                   httpLog, attempts, closes, bucket, syncs, rotations,
                   uploadLog, syncLog, fetchLog>>

\* connection.update with connection === "open": the handler only logs
ConnOpen(k) ==
    /\ process = "running"
    /\ k \in 1..Len(socks)
    /\ socks[k].state = "connecting"
    /\ socks' = [socks EXCEPT ![k].state = "open"]
    /\ UNCHANGED <<variant, webhookUrl, msgVars, timers, sent, now, nodeExits,
                   process, boots, globalSock, httpLog, attempts, closes,
                   credVars>>

\* the reconnect decision without its statusCode test
OnCloseAlways(reason) ==
    IF ReconnectsWithTimer(variant)
    THEN /\ timers' = timers \cup
               {[kind |-> "reconnect", fireAt |-> now + ReconnectDelay(variant),
                 setAt |-> now, id |-> Len(closes) + 1]}
         /\ UNCHANGED <<boots, attempts>>
    ELSE StartBot("direct", now) /\ UNCHANGED timers

\* connection.update with connection === "close":
\* if (statusCode !== DisconnectReason.loggedOut) reconnect; else log
OnClose(reason) ==
    IF reason # "loggedOut"
    THEN IF ReconnectsWithTimer(variant)
         THEN /\ timers' = SetTimeout(timers,
                     [kind |-> "reconnect", fireAt |-> now + ReconnectDelay(variant),
                      setAt |-> now, id |-> Len(closes) + 1])
              /\ UNCHANGED <<boots, attempts>>
         ELSE StartBot("direct", now) /\ UNCHANGED timers
    ELSE UNCHANGED <<timers, boots, attempts>>

\* a socket reports "close" (the library reports it once for each socket)
ConnClose(k, reason) ==
    /\ process = "running"
    /\ k \in 1..Len(socks)
    /\ socks[k].state \in {"connecting", "open"}
    /\ Len(attempts) < MaxStarts
    /\ socks' = [socks EXCEPT ![k].state = "closed"]
    /\ closes' = Append(closes, [sock |-> k, reason |-> reason, at |-> now,
                                 was |-> socks[k].state])
    /\ OnClose(reason)
    /\ UNCHANGED <<variant, webhookUrl, msgVars, sent, now, nodeExits, process,
                   globalSock, httpLog, credVars>>

\* a timer that is set with setInterval: it stays after it has run
ReconnectFireRepeating(t) ==
    /\ process = "running"
    /\ t \in timers
    /\ t.kind = "reconnect"
    /\ t.fireAt <= now
    /\ timers' = timers
    /\ StartBot("timer", t.setAt)
    /\ UNCHANGED <<variant, webhookUrl, msgVars, sent, now, nodeExits, process,
                   socks, globalSock, httpLog, closes, credVars>>

\* the timer of setTimeout(startBot, delay) runs
ReconnectFire(t) ==
    /\ process = "running"
    /\ t \in timers
    /\ t.kind = "reconnect"
    /\ t.fireAt <= now
    /\ timers' = timers \ {t}
    /\ StartBot("timer", t.setAt)
    /\ UNCHANGED <<variant, webhookUrl, msgVars, sent, now, nodeExits, process,
                   socks, globalSock, httpLog, closes, credVars>>

\* what `await global.sock.sendMessage(jid, ...)` does in POST /send:
\* a TypeError while global.sock is undefined
SendOutcomes ==
    IF globalSock = 0 THEN {"TypeError"}
    ELSE SockSendMessage(socks[globalSock].state)

\* a handler that answers before the send has settled
HttpStatusEarly(outcome) == 200

\* part_000 215-220: res.json({ success: true, ... }) after the await,
\* res.status(500) in the catch
HttpStatus(outcome) == IF outcome = "resolved" THEN 200 ELSE 500

\* app.post("/send", ...) of part_000; `complete` says that the body holds
\* both `to` and `message`
SendRequest(complete, outcome) ==
    /\ process = "running"
    /\ variant = "part_000"
    /\ Len(httpLog) < MaxSends
    /\ outcome \in SendOutcomes
    /\ httpLog' = Append(httpLog,
          [complete |-> complete,
           status |-> IF ~complete THEN 400 ELSE HttpStatus(outcome),
           calls |-> IF ~complete \/ globalSock = 0 THEN 0 ELSE 1,
           delivered |-> complete /\ outcome = "resolved",
           sock |-> globalSock,
           state |-> IF globalSock = 0 THEN "none" ELSE socks[globalSock].state,
           at |-> now])
    /\ UNCHANGED <<variant, webhookUrl, msgVars, timers, sent, now, nodeExits,
                   process, boots, socks, globalSock, attempts, closes,
                   credVars>>

-----------------------------------------------------------------------------
(* creds.update: saveCreds, then the upload of the auth folder             *)

\* part_002 registers no creds.update handler
HasCredsHandler(v) == v # "part_002"

\* part_001 83-87: uploadUpdatedFiles(authFolder, Object.keys(state.creds)),
\* not awaited, and without a try/catch of its own (56-66)
UploadsChangedFiles(v) == v = "part_001"

\* part_000 68: createReadStream(filePath) instead of `await fs.readFile`
ReadsBeforeUpload(v) == v # "part_000"

\* Object.keys(state.creds): names of fields of the credentials, not of files
CredsKeys == <<"noiseKey", "signedIdentityKey">>

\* a creds.update handler at `await saveCreds()`; `ver` is the content that
\* saveCreds writes, `files`, `i`, `buf` are the locals of the upload loop
Sync(id, sock, ver) ==
    [id |-> id, sock |-> sock, pc |-> "save", ver |-> ver, files |-> <<>>,
     i |-> 0, buf |-> 0, tried |-> {}, failed |-> {}]

\* the content the bucket holds under a name (0: none)
Remote(name) == IF name \in DOMAIN bucket THEN bucket[name] ELSE 0

\* storage.upload(name, content, { upsert: true }) has succeeded
PutBlob(b, name, content) ==
    [n \in DOMAIN b \cup {name} |-> IF n = name THEN content ELSE b[n]]

\* the socket emits creds.update: the credentials in memory have changed
CredsUpdate(k) ==
    /\ process = "running"
    /\ k \in 1..Len(socks)
    /\ socks[k].state # "closed"
    /\ rotations' = rotations + 1
    /\ socks' = [socks EXCEPT ![k].creds = @ + 1]
    /\ syncs' = IF HasCredsHandler(variant)
                THEN syncs \cup {Sync(rotations + 1, k, socks[k].creds + 1)}
                ELSE syncs
    /\ UNCHANGED <<variant, webhookUrl, msgVars, timers, sent, now, nodeExits,
                   process, boots, globalSock, httpLog, attempts, closes,
                   authFolder, bucket, uploadLog, syncLog, fetchLog>>

\* the handler or the upload function returns ("done"), ends in its catch
\* ("caught"), or its promise rejects with nobody to handle it ("escaped")
SyncEnds(old, y, how) ==
    /\ syncs' = syncs \ {old}
    /\ syncLog' = Append(syncLog,
          [id |-> y.id, how |-> how, listed |-> y.files, tried |-> y.tried,
           failed |-> y.failed])
    /\ IF how = "escaped" THEN Rejected ELSE UNCHANGED process

\* `for (const file of files)` at file i: the read (or, in part_000, the
\* upload of a stream) is issued, or the loop is over and the function logs
\* its success and returns
UploadNext(old, y, i) ==
    IF i > Len(y.files)
    THEN SyncEnds(old, y, "done") /\ UNCHANGED uploadLog
    ELSE IF ReadsBeforeUpload(variant)
    THEN /\ syncs' = (syncs \ {old}) \cup
               {[y EXCEPT !.pc = "read", !.i = i, !.tried = @ \cup {y.files[i]}]}
         /\ UNCHANGED <<syncLog, process, uploadLog>>
    ELSE /\ syncs' = (syncs \ {old}) \cup
               {[y EXCEPT !.pc = "upload", !.i = i,
                          !.tried = @ \cup {y.files[i]},
                          !.buf = authFolder.files[y.files[i]]]}
         /\ uploadLog' = Append(uploadLog,
               [sync |-> y.id, name |-> y.files[i],
                version |-> authFolder.files[y.files[i]],
                prior |-> Remote(y.files[i]), at |-> now])
         /\ UNCHANGED <<syncLog, process>>

\* `await saveCreds()` settles: creds.json is written, or the write fails
\* and the handler's promise rejects.  Then uploadAuthFolder /
\* uploadUpdatedFiles is called; it starts with `await fs.readdir(...)`, in
\* part_001 with the loop over the given names.
SaveDone(y, ok) ==
    /\ process = "running"
    /\ y \in syncs
    /\ y.pc = "save"
    /\ IF ok
       THEN /\ authFolder' = WriteFile(authFolder, CREDS_JSON, y.ver)
            /\ IF UploadsChangedFiles(variant)
               THEN UploadNext(y, [y EXCEPT !.files = CredsKeys], 1)
               ELSE /\ syncs' = (syncs \ {y}) \cup {[y EXCEPT !.pc = "readdir"]}
                    /\ UNCHANGED <<syncLog, process, uploadLog>>
       ELSE /\ authFolder' = authFolder
            /\ SyncEnds(y, y, "escaped")
            /\ UNCHANGED uploadLog
    /\ UNCHANGED <<variant, webhookUrl, msgVars, timers, sent, now, nodeExits,
                   boots, socks, globalSock, httpLog, attempts, closes,
                   bucket, rotations, fetchLog>>

\* `await fs.readdir(authFolder)` settles
ReaddirDone(y, ok) ==
    /\ process = "running"
    /\ y \in syncs
    /\ y.pc = "readdir"
    /\ IF ok
       THEN UploadNext(y, [y EXCEPT !.files = Listing(authFolder.files)], 1)
       ELSE SyncEnds(y, y, "caught") /\ UNCHANGED uploadLog
    /\ UNCHANGED <<variant, webhookUrl, msgVars, timers, sent, now, nodeExits,
                   boots, socks, globalSock, httpLog, attempts, closes,
                   authFolder, bucket, rotations, fetchLog>>

\* `await fs.readFile(filePath)` settles: with the content (only if there
\* is such a file), or it rejects; with the content the upload is issued
ReadDone(y, ok) ==
    /\ process = "running"
    /\ y \in syncs
    /\ y.pc = "read"
    /\ IF ok
       THEN /\ y.files[y.i] \in DOMAIN authFolder.files
            /\ syncs' = (syncs \ {y}) \cup
                  {[y EXCEPT !.pc = "upload", !.buf = authFolder.files[y.files[y.i]]]}
            /\ uploadLog' = Append(uploadLog,
                  [sync |-> y.id, name |-> y.files[y.i],
                   version |-> authFolder.files[y.files[y.i]],
                   prior |-> Remote(y.files[y.i]), at |-> now])
            /\ UNCHANGED <<syncLog, process>>
       ELSE /\ SyncEnds(y, y, IF UploadsChangedFiles(variant) THEN "escaped"
                              ELSE "caught")
            /\ UNCHANGED uploadLog
    /\ UNCHANGED <<variant, webhookUrl, msgVars, timers, sent, now, nodeExits,
                   boots, socks, globalSock, httpLog, attempts, closes,
                   authFolder, bucket, rotations, fetchLog>>

\* `await supabase.storage...upload(...)` settles: the object is stored
\* ("ok"), the call resolves to { error } which nobody looks at ("error"),
\* or it rejects ("throw")
UploadDone(y, outcome) ==
    /\ process = "running"
    /\ y \in syncs
    /\ y.pc = "upload"
    /\ CASE outcome = "ok" ->
              /\ bucket' = PutBlob(bucket, y.files[y.i], y.buf)
              /\ UploadNext(y, y, y.i + 1)
         [] outcome = "error" ->
              /\ bucket' = bucket
              /\ UploadNext(y, [y EXCEPT !.failed = @ \cup {y.files[y.i]}], y.i + 1)
         [] OTHER ->
              /\ bucket' = bucket
              /\ SyncEnds(y, [y EXCEPT !.failed = @ \cup {y.files[y.i]}],
                          IF UploadsChangedFiles(variant) THEN "escaped"
                          ELSE "caught")
              /\ UNCHANGED uploadLog
    /\ UNCHANGED <<variant, webhookUrl, msgVars, timers, sent, now, nodeExits,
                   boots, socks, globalSock, httpLog, attempts, closes,
                   authFolder, rotations, fetchLog>>

-----------------------------------------------------------------------------
(* SpecConn: the life cycle of the connection                              *)

InitConn == Init /\ webhookUrl /\ FreshStart

BootSteps ==
    \E b \in boots :
        \/ BootVersion(b)
        \/ BootDownload(b, "data")
        \/ \E ok \in BOOLEAN : BootSocket(b, ok)

ConnOpens == \E k \in 1..Len(socks) : ConnOpen(k)

ConnCloses ==
    \E k \in 1..Len(socks), reason \in {"loggedOut", "other"} : ConnClose(k, reason)

ReconnectTimer == \E t \in timers : ReconnectFire(t)

SendRequests ==
    \E complete \in BOOLEAN, outcome \in {"TypeError", "rejected", "resolved"} :
        SendRequest(complete, outcome)

NextConn ==
    \/ BootSteps
    \/ ConnOpens
    \/ ConnCloses
    \/ ReconnectTimer
    \/ AdvanceTime
    \/ SendRequests

SpecConn == InitConn /\ [][NextConn]_vars

-----------------------------------------------------------------------------
(* SpecFilter: the handlers of all five programs under interleaved events  *)

MaxEvents == 2
MaxBatch == 2

FilterIds == {1, 2}

FilterMsgs ==
    UNION {{TextMsg(id),
            Msg(id, FALSE, TRUE, NULL, NULL, JID_USER, <<>>, <<>>)}
           : id \in FilterIds}

Batches(S, n) == UNION {[1..k -> S] : k \in 1..n}

UpsertFilter ==
    /\ nEvents < MaxEvents
    /\ \E msgs \in Batches(FilterMsgs, MaxBatch), type \in {"notify", "append"} :
          Upsert(1, msgs, type)
    /\ UNCHANGED inbound

\* the delay drawn by Math.random() when the specification does not study it
SomeDelay(v) == CHOOSE d \in ReplyDelays(v) : \A e \in ReplyDelays(v) : d <= e

FetchSettles ==
    /\ \E h \in pending, resp \in Responses :
          FetchDone(h, resp, SomeDelay(variant))
    /\ UNCHANGED answered

SendSettles == \E h \in pending : SendDone(h)

ReplyTimer ==
    \E t \in timers, outcome \in {"resolved", "rejected"} : ReplyFire(t, outcome)

NextFilter ==
    \/ UpsertFilter
    \/ FetchSettles
    \/ SendSettles

InitFilter == Init /\ ~nodeExits /\ FreshStart

SpecFilter == InitFilter /\ [][NextFilter]_vars

-----------------------------------------------------------------------------
(* SpecDedup: part_000 with enough distinct identifiers to fill the cache  *)

MaxMsgId == 502
NumTextIds == 1
MaxRedeliver == 2

\* an image message: content, but no text
FillerMsg(id) == Msg(id, FALSE, TRUE, NULL, NULL, JID_USER, <<>>, <<>>)

\* identifiers arrive in ascending order the first time
NextFreshId == Cardinality(DOMAIN insertedAt) + 1

InitDedup ==
    Init /\ variant = "part_000" /\ webhookUrl /\ ~nodeExits /\ FreshStart

DeliverFresh ==
    /\ NextFreshId <= MaxMsgId
    /\ Upsert(1, <<IF NextFreshId <= NumTextIds THEN TextMsg(NextFreshId)
                   ELSE FillerMsg(NextFreshId)>>, "notify")
    /\ UNCHANGED inbound

Redeliver ==
    /\ nEvents - (NextFreshId - 1) < MaxRedeliver
    /\ \E id \in 1..NumTextIds :
          /\ id < NextFreshId
          /\ Upsert(1, <<TextMsg(id)>>, "notify")
          /\ UNCHANGED inbound

\* the webhook answers without a reply
FetchSettlesQuiet ==
    /\ \E h \in pending : FetchDone(h, "noreply", SomeDelay(variant))
    /\ UNCHANGED answered

NextDedup ==
    \/ DeliverFresh
    \/ Redeliver
    \/ FetchSettlesQuiet

SpecDedup == InitDedup /\ [][NextDedup]_vars

-----------------------------------------------------------------------------
(* SpecAdmit: one handler of each program applied to one inbound message   *)

Texts == {NULL, "", "hi"}

AdmitJids == {JID_USER, JID_DEVICE, JID_CUS, JID_LID, JID_GROUP, JID_STATUS}

AdmitMsgs ==
    {Msg(1, fromMe, TRUE, c, e, jid, pn, part) :
        fromMe \in BOOLEAN, c \in Texts, e \in Texts, jid \in AdmitJids,
        pn \in {<<>>, PN_USER}, part \in {<<>>, PARTICIPANT}}
    \cup
    {Msg(1, fromMe, FALSE, NULL, NULL, jid, pn, part) :
        fromMe \in BOOLEAN, jid \in AdmitJids,
        pn \in {<<>>, PN_USER}, part \in {<<>>, PARTICIPANT}}

UpsertAdmit ==
    /\ nEvents = 0
    /\ \E m \in AdmitMsgs : Upsert(1, <<m>>, "notify")
    /\ UNCHANGED inbound

NextAdmit == UpsertAdmit

SpecAdmit == InitFilter /\ [][NextAdmit]_vars

-----------------------------------------------------------------------------
(* SpecRelay: the program from its start: startBot makes the socket, the   *)
(* socket's events reach the handlers registered on it, replies wait on    *)
(* timers                                                                  *)

MaxInbound == 2

\* a text message of an account that is known by its internal id only
LidMsg(id) == Msg(id, FALSE, TRUE, "hi", NULL, JID_LID, <<>>, <<>>)

RelayBatches == {<<TextMsg(1)>>, <<LidMsg(3)>>, <<TextMsg(1), TextMsg(2)>>}

\* answers of the webhook: an object with or without a reply, a body that
\* is not JSON, no answer at all
RelayResponses == {"throw", "nojson", "noreply", "reply"}

\* the least and the greatest delay that Math.random() can give
RelayDelays(v) ==
    {d \in ReplyDelays(v) :
        \/ \A e \in ReplyDelays(v) : d <= e
        \/ \A e \in ReplyDelays(v) : d >= e}

\* socket k emits messages.upsert; an event nobody listens to is lost
Inbound(k, msgs) ==
    /\ process = "running"
    /\ k \in 1..Len(socks)
    /\ socks[k].state = "open"
    /\ inbound' = Append(inbound,
          [sock |-> k, ids |-> IdsOf(msgs), at |-> now,
           text |-> [j \in 1..Len(msgs) |-> TextOf(msgs[j]) # ""],
           heard |-> socks[k].upsert, msgs |-> msgs,
           hid |-> IF socks[k].upsert THEN nEvents + 1 ELSE 0])
    /\ IF socks[k].upsert
       THEN Upsert(k, msgs, "notify")
       ELSE UNCHANGED <<variant, webhookUrl, processedMessages, pending,
                        relayLog, timers, sent, now, nEvents, lastDelivered,
                        insertedAt, clock, connVars, answered, credVars>>

Inbounds ==
    /\ Len(inbound) < MaxInbound
    /\ \E k \in 1..Len(socks), msgs \in RelayBatches : Inbound(k, msgs)

\* the webhook answers, or the call fails
FetchAnswers ==
    /\ process = "running"
    /\ \E h \in pending, resp \in RelayResponses, delay \in RelayDelays(variant) :
          /\ FetchDone(h, resp, delay)
          /\ answered' = <<[hid |-> h.hid, i |-> h.i, resp |-> resp,
                            msgs |-> h.msgs]>>

SendAnswers == process = "running" /\ SendSettles

InitRelay == InitConn

NextRelay ==
    \/ BootSteps
    \/ ConnOpens
    \/ AdvanceTime
    \/ Inbounds
    \/ FetchAnswers
    \/ SendAnswers
    \/ ReplyTimer

SpecRelay == InitRelay /\ [][NextRelay]_vars

\* the event loop runs a timer that is due, and time does not stand still
SpecRelayLive == SpecRelay /\ WF_vars(ReplyTimer) /\ WF_vars(AdvanceTime)

-----------------------------------------------------------------------------
(* SpecSession: messages and replies across disconnects and reconnects     *)

MaxSessionInbound == 1

SessionInbound ==
    /\ Len(inbound) < MaxSessionInbound
    /\ \E k \in 1..Len(socks) : Inbound(k, <<TextMsg(1)>>)

SessionAnswers ==
    /\ process = "running"
    /\ \E h \in pending, resp \in {"reply", "noreply"},
          delay \in RelayDelays(variant) : FetchDone(h, resp, delay)
    /\ UNCHANGED answered

NextSession ==
    \/ BootSteps
    \/ ConnOpens
    \/ ConnCloses
    \/ ReconnectTimer
    \/ AdvanceTime
    \/ SessionInbound
    \/ SessionAnswers
    \/ SendAnswers
    \/ ReplyTimer

SpecSession == InitConn /\ [][NextSession]_vars

-----------------------------------------------------------------------------
(* SpecCreds: the credentials between the auth folder and the bucket       *)

MaxRotations == 2
MaxCredsInbound == 1

BootFetches ==
    \E b \in boots :
        \/ \E result \in {"data", "error", "throw"} :
              BootDownload(b, result) \/ BootFetchBlob(b, result)
        \/ \E ok \in BOOLEAN : BootMkdir(b, ok) \/ BootWriteBlob(b, ok)

BootRest ==
    \E b \in boots : BootVersion(b) \/ \E ok \in BOOLEAN : BootSocket(b, ok)

\* creds.update events in a row: the next one when the sync of the one
\* before has ended
CredsUpdates ==
    /\ rotations < MaxRotations
    /\ syncs = {}
    /\ \E k \in 1..Len(socks) : CredsUpdate(k)

SyncSteps ==
    \E y \in syncs :
        \/ \E ok \in BOOLEAN : SaveDone(y, ok) \/ ReaddirDone(y, ok) \/ ReadDone(y, ok)
        \/ \E outcome \in {"ok", "error", "throw"} : UploadDone(y, outcome)

\* a message arrives while credentials are being saved or uploaded
CredsInbound ==
    /\ Len(inbound) < MaxCredsInbound
    /\ syncs # {}
    /\ \E k \in 1..Len(socks) : Inbound(k, <<TextMsg(1)>>)

InitCreds == Init /\ webhookUrl

NextCreds ==
    \/ BootRest
    \/ BootFetches
    \/ ConnOpens
    \/ CredsUpdates
    \/ SyncSteps
    \/ CredsInbound

SpecCreds == InitCreds /\ [][NextCreds]_vars

-----------------------------------------------------------------------------
(* SpecRestore: credentials across disconnects: every startBot downloads   *)
(* the bucket into the auth folder again                                   *)

MaxRestoreRotations == 1
MaxRestoreCloses == 1

RestoreUpdates ==
    /\ rotations < MaxRestoreRotations
    /\ \E k \in 1..Len(socks) : CredsUpdate(k)

RestoreCloses ==
    /\ Len(closes) < MaxRestoreCloses
    /\ ConnCloses

NextRestore ==
    \/ BootRest
    \/ BootFetches
    \/ ConnOpens
    \/ RestoreCloses
    \/ ReconnectTimer
    \/ AdvanceTime
    \/ RestoreUpdates
    \/ SyncSteps

SpecRestore == InitCreds /\ [][NextRestore]_vars

-----------------------------------------------------------------------------
(* SpecOverlap: creds.update events that arrive while a sync is running    *)

MaxOverlap == 2

OverlapUpdates ==
    /\ rotations < MaxOverlap
    /\ \E k \in 1..Len(socks) : CredsUpdate(k)

NextOverlap ==
    \/ BootSteps
    \/ ConnOpens
    \/ OverlapUpdates
    \/ SyncSteps

SpecOverlap == InitConn /\ [][NextOverlap]_vars

-----------------------------------------------------------------------------
(* SpecBatch: batches in which a message that is dropped comes first       *)

MaxBatchEvents == 1

\* messages the handlers drop: sent by this account, without content,
\* without text
DroppedMsgs ==
    {Msg(1, TRUE, TRUE, "hi", NULL, JID_USER, <<>>, <<>>),
     Msg(1, FALSE, FALSE, NULL, NULL, JID_USER, <<>>, <<>>),
     Msg(1, FALSE, TRUE, NULL, NULL, JID_USER, <<>>, <<>>)}

BatchCases ==
    {<<d, TextMsg(2)>> : d \in DroppedMsgs}
        \cup {<<TextMsg(1), TextMsg(2)>>, <<TextMsg(2)>>}

BatchInbound ==
    /\ Len(inbound) < MaxBatchEvents
    /\ \E k \in 1..Len(socks), msgs \in BatchCases : Inbound(k, msgs)

NextBatch ==
    \/ BootSteps
    \/ ConnOpens
    \/ BatchInbound
    \/ SessionAnswers
    \/ SendAnswers

SpecBatch == InitConn /\ [][NextBatch]_vars

-----------------------------------------------------------------------------
(* The deduplication cache: claims C1 - C4                                 *)

\* only part_000 keeps a cache of processed identifiers
HasDedupWindow(v) == v = "part_000"

\* number of webhook POSTs issued for identifier id
RelayCount(log, id) == Cardinality({k \in 1..Len(log) : log[k].msg.id = id})

C2_WindowBounded == Len(processedMessages) <= CACHE_LIMIT /\ CACHE_LIMIT = 500

\* the cache is full and an identifier has been evicted from it
C2_Witness ==
    /\ Len(processedMessages) = CACHE_LIMIT
    /\ clock > CACHE_LIMIT
    /\ ~SetHas(processedMessages, 1)

\* C3: eviction is strict FIFO.  A step removes an identifier from the cache
\* only when the cache is full, removes exactly one, and that one is the
\* identifier whose insertion is the oldest (a duplicate hit does not count
\* as an insertion); and a text message whose identifier is not cached (any
\* more) is admitted: cached and relayed again.
C3_StrictFifo ==
    [][LET old  == Range(processedMessages)
           gone == old \ Range(processedMessages')
           last == lastDelivered'[Len(lastDelivered')]
       IN  /\ gone # {} =>
                /\ Len(processedMessages) = CACHE_LIMIT
                /\ Cardinality(gone) = 1
                /\ \A x \in gone, y \in old : insertedAt[x] <= insertedAt[y]
           /\ (nEvents' = nEvents + 1 /\ last \notin old) =>
                /\ SetHas(processedMessages', last)
                /\ last <= NumTextIds =>
                      RelayCount(relayLog', last) = RelayCount(relayLog, last) + 1]_vars

\* identifier 1 was hit as a duplicate, later evicted, and then admitted again
C3_Witness ==
    /\ RelayCount(relayLog, 1) = 2
    /\ SetHas(processedMessages, 1)
    /\ clock = CACHE_LIMIT + 2
    /\ nEvents = clock + 1

-----------------------------------------------------------------------------
(* The connection life cycle: claims C5 - C8                               *)

ReconnectTimers(ts) == {t \in ts : t.kind = "reconnect"}

LoggedOutSeen(cs) == \E k \in 1..Len(cs) : cs[k].reason = "loggedOut"

\* C5: once a socket has reported "close" with the logged-out code, no
\* reconnect timer is set or left, no call of startBot is in progress and
\* none is started any more.
C5_LoggedOutIsTerminal ==
    [][LoggedOutSeen(closes') =>
          /\ Len(attempts') = Len(attempts)
          /\ ReconnectTimers(timers') = {}
          /\ boots' = {}]_vars

\* a reconnect after an ordinary close, then a logged-out close, then a
\* request served in the terminal state
C5_Witness ==
    /\ Len(closes) = 2
    /\ closes[1].reason = "other"
    /\ closes[2].reason = "loggedOut"
    /\ Len(attempts) = 2
    /\ Len(httpLog) = 1
    /\ httpLog[1].at >= closes[2].at
    /\ httpLog[1].sock = closes[2].sock

\* number of "close" events with another code than logged-out
OtherCloses == Cardinality({k \in 1..Len(closes) : closes[k].reason # "loggedOut"})

Retries == {k \in 1..Len(attempts) : attempts[k].cause # "initial"}

\* C6: every close with another code than logged-out schedules exactly one
\* retry of startBot, and the retry starts only after the backoff delay.
C6_OneRetryAfterBackoff ==
    /\ OtherCloses = Cardinality(Retries) + Cardinality(ReconnectTimers(timers))
    /\ \A k \in Retries :
          /\ attempts[k].at > attempts[k].closeAt
          /\ attempts[k].at - attempts[k].closeAt >= ReconnectDelay(variant)

Connected == \E k \in 1..Len(socks) : socks[k].state = "open"

\* something is under way that ends in a connection attempt, Connected or
\* LoggedOut: a call of startBot, a reconnect timer, a socket being linked
Retrying ==
    /\ process = "running"
    /\ \/ boots # {}
       \/ ReconnectTimers(timers) # {}
       \/ \E k \in 1..Len(socks) : socks[k].state = "connecting"

\* C7: reconnection is unbounded.  After a close with another code than
\* logged-out, while neither Connected nor LoggedOut is reached, another
\* attempt is always still to come, also when a call of startBot failed.
C7_AnotherAttemptComes ==
    (OtherCloses > 0 /\ ~Connected /\ ~LoggedOutSeen(closes)) => Retrying

\* C8: POST /send with `to` and `message` answers 200 only if the connection
\* is open; in any other state it answers 500, delivers nothing and calls
\* sendMessage at most once.
C8_SendOnlyWhileConnected ==
    \A k \in 1..Len(httpLog) :
        LET e == httpLog[k]
        IN  e.complete =>
              /\ e.status = 200 => e.state = "open" /\ e.delivered
              /\ e.state # "open" =>
                    e.status = 500 /\ ~e.delivered /\ e.calls <= 1

\* a request before any socket exists answers 500, a later one answers 200
C8_Witness ==
    /\ Len(httpLog) = 2
    /\ httpLog[1].complete /\ httpLog[1].state = "none" /\ httpLog[1].status = 500
    /\ httpLog[2].complete /\ httpLog[2].state = "open" /\ httpLog[2].status = 200

-----------------------------------------------------------------------------
(* Admission and sender normalisation: claims C9, C10                      *)

BROADCAST == <<"@", "b", "r", "o", "a", "d", "c", "a", "s", "t">>

IsBroadcast(jid) == EndsWith(jid, BROADCAST)

Digits == {"0", "1", "2", "3", "4", "5", "6", "7", "8", "9"}

\* <digits>@c.us
IsPersonalForm(jid) ==
    /\ EndsWith(jid, C_US)
    /\ Len(jid) > Len(C_US)
    /\ \A k \in 1..(Len(jid) - Len(C_US)) : jid[k] \in Digits

\* C9: no webhook POST is issued for an event without text, for an event
\* sent by this session, or for an event of a broadcast channel.
C9_AdmissionDrops ==
    \A k \in 1..Len(relayLog) :
        LET m == relayLog[k].msg
        IN  /\ m.hasMessage
            /\ (m.conversation \notin {NULL, ""} \/ m.extText \notin {NULL, ""})
            /\ ~m.fromMe
            /\ ~IsBroadcast(m.remoteJid)

\* the identifier the claim's precedence selects: verified phone number,
\* then participant, then source
ClaimedSource(m) ==
    IF m.senderPn # <<>> THEN m.senderPn
    ELSE IF m.participant # <<>> THEN m.participant
    ELSE m.remoteJid

\* C10: a relayed group message keeps its group identifier as `from`; any
\* other relayed message has `from` = <digits>@c.us, the part before "@" of
\* the identifier chosen by the precedence.
C10_SenderNormalized ==
    \A k \in 1..Len(relayLog) :
        LET m == relayLog[k].msg
            f == relayLog[k].from
        IN  IF EndsWith(m.remoteJid, G_US)
            THEN f = m.remoteJid
            ELSE /\ IsPersonalForm(f)
                 /\ f = SplitAt0(ClaimedSource(m)) \o C_US

-----------------------------------------------------------------------------
(* Relay and delayed reply: claims C11 - C14, C19, C20                     *)

\* the webhook POST issued for message i of handler invocation hid
RelayEntry(hid, i) ==
    relayLog[CHOOSE k \in 1..Len(relayLog) :
                relayLog[k].hid = hid /\ relayLog[k].i = i]

\* the sendMessage calls made for message i of handler invocation hid
SendsFor(hid, i) == {k \in 1..Len(sent) : sent[k].hid = hid /\ sent[k].i = i}

ReplyTimers(ts) == {t \in ts : t.kind = "reply"}

\* C11: a reply is sent once, and more than 10 and less than 20 seconds
\* after the webhook POST of the message it answers.
C11_ReplyWindow ==
    \A k \in 1..Len(sent) :
        LET d == sent[k].at - RelayEntry(sent[k].hid, sent[k].i).at
        IN  /\ d > 10000
            /\ d < 20000
            /\ Cardinality(SendsFor(sent[k].hid, sent[k].i)) = 1

\* the identifiers that sockets have delivered
InboundIds == UNION {Range(inbound[k].ids) : k \in 1..Len(inbound)}

\* C12: a text message that an open socket delivers is relayed (the first
\* message of an event at once), an identifier is relayed once however often
\* it is delivered, and at most one reply is sent for it.
C12_EndToEnd ==
    /\ \A k \in 1..Len(inbound) :
          RelayCount(relayLog, inbound[k].ids[1]) >= 1
    /\ \A id \in InboundIds :
          /\ RelayCount(relayLog, id) <= 1
          /\ Cardinality({k \in 1..Len(sent) :
                 RelayEntry(sent[k].hid, sent[k].i).msg.id = id}) <= 1

\* C13: when the webhook call fails in transport ("throw") or its body is
\* not JSON ("nojson"), that step schedules no reply, sends nothing, does not
\* repeat the POST and leaves the process running; and the handler goes on
\* to the next message of the batch (here always a text message), which is
\* relayed in the same step.
C13_WebhookFailureContained ==
    [][(answered' # answered /\ answered'[1].resp \in {"throw", "nojson"}) =>
          LET a == answered'[1]
          IN  /\ timers' = timers
              /\ sent' = sent
              /\ process' = process
              /\ \A k \in (Len(relayLog) + 1)..Len(relayLog') :
                    relayLog'[k].hid = a.hid /\ relayLog'[k].i > a.i
              /\ a.i < Len(a.msgs) =>
                    /\ Len(relayLog') = Len(relayLog) + 1
                    /\ relayLog'[Len(relayLog')].i = a.i + 1
                    /\ relayLog'[Len(relayLog')].msg = a.msgs[a.i + 1]]_vars

\* the first call of a batch failed in transport, the second came back with
\* a body that is not JSON; nothing was scheduled or sent
C13_Witness ==
    /\ Len(answered) = 1
    /\ answered[1].resp = "nojson"
    /\ answered[1].i = 2
    /\ Len(relayLog) = 2
    /\ timers = {}
    /\ sent = <<>>
    /\ pending = {}

\* C14: scheduled replies are independent.  No reply is sent twice, replies
\* are sent in the order of their due times, and a reply that is scheduled
\* is not lost: as long as its timer is pending the process is there to run
\* it, whatever became of the other replies.
C14_RepliesIndependent ==
    /\ \A k \in 1..Len(sent) :
          Cardinality(SendsFor(sent[k].hid, sent[k].i)) = 1
    /\ \A k, l \in 1..Len(sent) : k < l => sent[k].due <= sent[l].due
    /\ \A t \in ReplyTimers(timers) :
          /\ SendsFor(t.hid, t.i) = {}
          /\ process = "running"

\* C14, what holds of it: a pending reply timer leaves the set of timers
\* only by running, and then it makes its one sendMessage call; it runs only
\* when no other timer is due earlier; no reply is sent twice; and every
\* scheduled reply does run unless the process has ended before.
C14_IndependentWhileRunning ==
    /\ [][\A t \in ReplyTimers(timers) :
              t \notin timers' =>
                 /\ Len(sent') = Len(sent) + 1
                 /\ sent'[Len(sent')].hid = t.hid
                 /\ sent'[Len(sent')].i = t.i
                 /\ sent'[Len(sent')].to = t.to
                 /\ sent'[Len(sent')].text = t.text
                 /\ timers' = timers \ {t}
                 /\ SendsFor(t.hid, t.i) = {}
                 /\ \A u \in timers : t.fireAt <= u.fireAt]_vars
    /\ \A hid \in 1..(MaxInbound + 1), i \in 1..2 :
          (\E t \in ReplyTimers(timers) : t.hid = hid /\ t.i = i)
             ~> (SendsFor(hid, i) # {} \/ process = "exited")

\* two replies to one sender were pending together, the one of the later
\* event was due earlier, and both have run, in the order of their due times
C14_Witness ==
    /\ Len(sent) = 2
    /\ sent[1].to = sent[2].to
    /\ sent[1].hid > sent[2].hid
    /\ sent[1].setAt < sent[2].due
    /\ sent[1].due < sent[2].due
    /\ sent[1].at < sent[2].at
    /\ timers = {}

\* C19: a reply goes to the identifier the event came from
\* (msg.key.remoteJid as delivered), not to the normalised one.
C19_ReplyToRawSource ==
    \A k \in 1..Len(sent) :
        sent[k].to = RelayEntry(sent[k].hid, sent[k].i).msg.remoteJid

\* C20 as claimed: webhook POSTs are issued in the order in which the
\* messages were delivered, across batches too.
C20_RelayInDeliveryOrder ==
    \A k, l \in 1..Len(relayLog) :
        k < l =>
           \/ relayLog[k].hid < relayLog[l].hid
           \/ relayLog[k].hid = relayLog[l].hid /\ relayLog[k].i < relayLog[l].i

\* C20 as amended: within a batch the POSTs are issued in order and one at
\* a time (none while an earlier message of the batch is still waiting for
\* the webhook or for its send); the first POSTs of the batches are issued
\* in the order of the batches.
C20_InOrderWithinBatch ==
    /\ \A k, l \in 1..Len(relayLog) :
          (k < l /\ relayLog[k].hid = relayLog[l].hid) =>
             relayLog[k].i < relayLog[l].i
    /\ \A h \in pending :
          \A k \in 1..Len(relayLog) :
             relayLog[k].hid = h.hid => relayLog[k].i <= h.i
    /\ \A k, l \in 1..Len(relayLog) :
          (k < l /\ relayLog[k].i = 1 /\ relayLog[l].i = 1) =>
             relayLog[k].hid < relayLog[l].hid

\* the second message of the first batch was relayed after the message of
\* the second batch
C20_Witness ==
    /\ Len(relayLog) = 3
    /\ relayLog[1].hid = 1 /\ relayLog[1].i = 1
    /\ relayLog[2].hid = 2 /\ relayLog[2].i = 1
    /\ relayLog[3].hid = 1 /\ relayLog[3].i = 2

-----------------------------------------------------------------------------
(* The credential store: claims C15 - C18                                  *)

\* the calls of downloadAuthFolder that found nothing to download
FreshStarts == {i \in 1..Len(fetchLog) : fetchLog[i].log = "fresh"}

\* C18 as stated: with no remote blobs under the client's namespace
\* downloadAuthFolder returns false and leaves the local folder as it was.
C18_FreshStartReturnsFalse ==
    \A i \in FreshStarts :
        /\ fetchLog[i].ret = "false"
        /\ fetchLog[i].after = fetchLog[i].before

\* C18, amended: with no remote blobs under the client's namespace
\* downloadAuthFolder logs the fresh start and returns without a value
\* (undefined), and it leaves the local folder untouched: not created, no
\* file written, changed or removed.
C18_FreshStartUntouched ==
    \A i \in FreshStarts :
        /\ fetchLog[i].ret = "undefined"
        /\ fetchLog[i].listed = 0
        /\ fetchLog[i].after = fetchLog[i].before

\* a fresh start with neither a bucket nor a folder: the folder is still
\* missing when downloadAuthFolder has returned
C18_Witness ==
    /\ bucket = NoBlobs
    /\ \E i \in FreshStarts :
          /\ fetchLog[i].before = NoFolder
          /\ fetchLog[i].after = NoFolder
          /\ authFolder = NoFolder

\* C15: handling a creds.update event never ends the process and no failure
\* of saveCreds or of an upload escapes the sync: every sync ends by
\* returning or in its own catch, and the process keeps running.
C15_SyncContained ==
    \A i \in 1..Len(syncLog) : syncLog[i].how # "escaped"

\* C16: a failure to read or upload one file does not abort the batch:
\* every sync that has ended attempted every file it listed, and a sync
\* that reports success ("done": the folder is logged as synced) has no file
\* whose upload failed.
C16_BatchNotAborted ==
    \A i \in 1..Len(syncLog) :
        /\ syncLog[i].tried =
              {syncLog[i].listed[j] : j \in 1..Len(syncLog[i].listed)}
        /\ syncLog[i].how = "done" => syncLog[i].failed = {}

\* C17: a file is uploaded only if its local content is newer than what the
\* bucket holds under its name, so a sync with no local change since the
\* last one uploads nothing.
C17_UploadsOnlyNewer ==
    \A i \in 1..Len(uploadLog) : uploadLog[i].version > uploadLog[i].prior

-----------------------------------------------------------------------------
(* Sessions: claims C21 - C23                                              *)

\* the replies that waited on a timer, by their position in `sent`
TimedReplies == {i \in 1..Len(sent) : sent[i].due > sent[i].setAt}

\* C21: a pending reply is dropped only if no connection is open when its
\* timer fires: whenever a reply timer fires while a socket is open (also
\* one made by a reconnect after the reply was scheduled), the reply is sent
\* through that open socket.
C21_SentThroughCurrent ==
    \A i \in TimedReplies :
        sent[i].open # {} => sent[i].sock \in sent[i].open

\* C22: the local credentials never regress: no step replaces a file of
\* the auth folder by an older version (one fetched from the bucket after a
\* disconnect and reconnect), and no step removes one.
C22_LocalNeverRegresses ==
    [][\A n \in DOMAIN authFolder.files :
          /\ n \in DOMAIN authFolder'.files
          /\ authFolder'.files[n] >= authFolder.files[n]]_vars

\* the sockets that are not closed: their handlers can still be called
LiveSocks == {k \in 1..Len(socks) : socks[k].state \in {"connecting", "open"}}

\* C23: at most one connection instance per process: at any time at most
\* one of these exists: a socket that is not closed, a call of startBot that
\* is making one, a pending reconnect timer.  So no two sockets can hear the
\* same inbound message, and every webhook call belongs to one event of one
\* socket.
C23_OneInstance ==
    /\ Cardinality(LiveSocks) + Cardinality(boots)
          + Cardinality(ReconnectTimers(timers)) <= 1
    /\ \A a, b \in 1..Len(relayLog) :
          (relayLog[a].hid = relayLog[b].hid /\ relayLog[a].i = relayLog[b].i)
              => a = b

\* after a close and a retry the second socket is the only live one, and
\* it has heard a message and relayed it
C23_Witness ==
    /\ Len(socks) = 2
    /\ socks[1].state = "closed"
    /\ socks[2].state = "open"
    /\ Len(inbound) = 1
    /\ inbound[1].sock = 2
    /\ Len(relayLog) = 1

-----------------------------------------------------------------------------
(* Concurrent syncs and batches: claims C24, C25                           *)

\* the uploads that have been issued and have not settled
InFlight == {y \in syncs : y.pc = "upload"}

\* C24: no two uploads of the same name are in flight at the same time.
C24_NoConcurrentUpload ==
    \A y1, y2 \in InFlight :
        y1.files[y1.i] = y2.files[y2.i] => y1 = y2

\* a message that no admission rule drops
Admissible(m) == m.hasMessage /\ ~m.fromMe /\ TextOf(m) # ""

\* C25: the messages of a batch are admitted independently: when the
\* handler of a batch has ended, every message of the batch that is not
\* itself dropped has been relayed, whatever came before it in the batch.
C25_AdmittedIndependently ==
    \A k \in 1..Len(inbound) :
        (inbound[k].heard /\ \A h \in pending : h.hid # inbound[k].hid) =>
            \A j \in 1..Len(inbound[k].msgs) :
                Admissible(inbound[k].msgs[j]) =>
                    \E r \in 1..Len(relayLog) :
                        /\ relayLog[r].hid = inbound[k].hid
                        /\ relayLog[r].i = j

====
